---- MODULE Spec2Model ----
(***************************************************************************)
(* A model of the research agent of genkit-perplexity-style-cli: the       *)
(* module initialisation of src/agent.ts (credentials, plugins), the model *)
(* registry (getAvailableModels, getDefaultModel), researchFlow with its   *)
(* classification of upstream failures, judgeFlow and the evaluation run   *)
(* of src/evaluator.ts (SpecEval), searchWeb of src/search.ts              *)
(* (SpecSearch), the interactive session of src/index.ts (SpecSession)     *)
(* and chunkCode of src/indexer.ts (SpecIndexer).                          *)
(*                                                                         *)
(* Texts that the code inspects (error messages) are sequences of          *)
(* one-character strings, so that String.includes and the "retry in"       *)
(* regular expression are computed on characters.  JavaScript objects are  *)
(* records; a property that is absent is a field that is not in the        *)
(* record's DOMAIN.                                                        *)
(***************************************************************************)
EXTENDS Integers, Sequences, FiniteSets, TLC

VARIABLES
    tavilyApiKey,   \* process.env.TAVILY_API_KEY
    geminiApiKey,   \* process.env.GEMINI_API_KEY
    openaiApiKey,   \* process.env.OPENAI_API_KEY
    startup,        \* "loading", "ready" or "configError": module initialisation
    flow,           \* the flow being run: "none", "researchFlow" or "judgeFlow"
    pc,             \* "idle", "awaiting" (generation request outstanding), "done"
    input,          \* the flow's input object
    modelToUse,     \* the model the generation request was issued with
    genCalls,       \* generation requests issued by the current invocation
    backend,        \* what the generation call did: "pending", "returned", "failed"
    genResult,      \* the result the generation call returned
    genError,       \* the value the generation call threw
    outcome,        \* what the flow did: "none", "returned", "thrown"
    returned,       \* the value the flow returned
    thrown,         \* the value the flow threw
    selectedModel,  \* the model the command-line caller selected
    evalPc,         \* the evaluation run's position (see EvalPositions)
    testCases,      \* the loaded dataset
    caseIndex,      \* the loop variable i of runEvaluations
    results,        \* the EvaluationResult list
    agentResponse,  \* what researchFlow returned for the current case
    trace,          \* history: the run's calls, outcomes, records and pauses
    summary,        \* what the final summary reports
    searchPc,       \* searchWeb: "idle", "awaiting" (provider call outstanding), "done"
    searchArgs,     \* the arguments searchWeb was called with
    providerCalls,  \* the calls searchWeb made to the provider's search
    providerOutcome,\* what the provider's search did
    searchOutcome,  \* what searchWeb did
    sessPc,         \* the interactive session: "idle", "open", "choosing", "closed"
    conversationHistory, \* conversationHistory of index.ts
    outstanding,    \* the researchFlow calls of line handlers not yet settled
    rlPaused,       \* the readline interface is paused
    screen,         \* what the last step of a line handler displayed
    lastOutcome,    \* what the researchFlow call settled last did
    linesRead,      \* line events delivered so far
    indexerPc,      \* the indexer: "idle", "loaded" (a document is read), "chunked"
    chunkArgs,      \* the arguments of chunkCode
    chunks          \* what chunkCode returned

vars == <<tavilyApiKey, geminiApiKey, openaiApiKey, startup, flow, pc, input,
          modelToUse, genCalls, backend, genResult, genError, outcome,
          returned, thrown, selectedModel, evalPc, testCases, caseIndex,
          results, agentResponse, trace, summary, searchPc, searchArgs,
          providerCalls, providerOutcome, searchOutcome, sessPc,
          conversationHistory, outstanding, rlPaused, screen, lastOutcome,
          linesRead, indexerPc, chunkArgs, chunks>>

----------------------------------------------------------------------------
(* Bounds of the model. *)

\* Longest upstream diagnostic, in vocabulary fragments.
MaxFrags == 2

\* Longest sources list of a backend's structured output.
MaxSources == 2

----------------------------------------------------------------------------
(* Text. *)

RECURSIVE Flatten(_)
\* The text made of the fragments fs, concatenated.
Flatten(fs) == IF fs = <<>> THEN <<>> ELSE Head(fs) \o Flatten(Tail(fs))

\* String.prototype.includes: sub occurs in s, case-sensitively.
Includes(s, sub) ==
    \E i \in 0..(Len(s) - Len(sub)) : SubSeq(s, i + 1, i + Len(sub)) = sub

ToLower ==
    [A |-> "a", B |-> "b", C |-> "c", D |-> "d", E |-> "e", F |-> "f",
     G |-> "g", H |-> "h", I |-> "i", J |-> "j", K |-> "k", L |-> "l",
     M |-> "m", N |-> "n", O |-> "o", P |-> "p", Q |-> "q", R |-> "r",
     S |-> "s", T |-> "t", U |-> "u", V |-> "v", W |-> "w", X |-> "x",
     Y |-> "y", Z |-> "z"]

\* The case folding of the regular expression's i flag.
Lower(c) == IF c \in DOMAIN ToLower THEN ToLower[c] ELSE c

DigitChars == <<"0", "1", "2", "3", "4", "5", "6", "7", "8", "9">>

\* The class \d.
IsDigit(c) == \E i \in DOMAIN DigitChars : DigitChars[i] = c

DigitVal(c) == (CHOOSE i \in DOMAIN DigitChars : DigitChars[i] = c) - 1

\* \d+ is greedy: the last index of the run of digits that starts at j.
DigitRunEnd(s, j) ==
    CHOOSE k \in j..Len(s) :
        /\ \A m \in j..k : IsDigit(s[m])
        /\ k = Len(s) \/ ~IsDigit(s[k + 1])

RECURSIVE DigitsValue(_, _, _)
\* The number written by the digits s[j..k].
DigitsValue(s, j, k) ==
    IF k < j THEN 0 ELSE DigitsValue(s, j, k - 1) * 10 + DigitVal(s[k])

\* The markers of the insufficient-balance rule.
M402 == <<"4", "0", "2">>
MInsufficientBalance ==
    <<"I", "n", "s", "u", "f", "f", "i", "c", "i", "e", "n", "t", " ",
      "B", "a", "l", "a", "n", "c", "e">>
MInsufficientQuota ==
    <<"i", "n", "s", "u", "f", "f", "i", "c", "i", "e", "n", "t", "_",
      "q", "u", "o", "t", "a">>

\* The markers of the rate-limit rule.
M429 == <<"4", "2", "9">>
MResourceExhausted ==
    <<"R", "E", "S", "O", "U", "R", "C", "E", "_",
      "E", "X", "H", "A", "U", "S", "T", "E", "D">>
MRate == <<"r", "a", "t", "e">>
MQuota == <<"q", "u", "o", "t", "a">>

\* The literal part of /retry in (\d+(?:\.\d+)?)/i.
RetryPrefix == <<"r", "e", "t", "r", "y", " ", "i", "n", " ">>

\* retrySeconds when the regular expression does not match.
DefaultRetrySeconds == 30

----------------------------------------------------------------------------
(* Upstream diagnostics: texts built from fragments that carry the markers *)
(* the code looks for, alone, inside another word, and with a retry hint.  *)

Vocabulary ==
    { M402, MInsufficientBalance, MInsufficientQuota,
      M429, MResourceExhausted, MRate, MQuota,
      <<"g", "e", "n", "e", "r", "a", "t", "e">>,
      <<"t", "i", "m", "e", "o", "u", "t">>,
      <<"r", "e", "t", "r", "y", " ", "i", "n", " ", "4", "5">>,
      <<"R", "e", "t", "r", "y", " ", "i", "n", " ", "7", ".", "5", "s">> }

FragSeqs == UNION { [1..n -> Vocabulary] : n \in 0..MaxFrags }

Messages == { Flatten(fs) : fs \in FragSeqs }

\* The values a generation call can throw: an Error instance with a message,
\* or a value that is not an Error (its text is what String(value) gives).
Failures ==
    { [type |-> t, origin |-> "backend", message |-> m] :
        t \in {"Error", "Value"}, m \in Messages }

\* The failures of the judge's generation call, which judgeFlow does not
\* inspect: one fragment at most.
JudgeFailures ==
    { [type |-> t, origin |-> "backend", message |-> m] :
        t \in {"Error", "Value"}, m \in Vocabulary \cup {<<>>} }

NoError == [type |-> "none"]

----------------------------------------------------------------------------
(* Credentials and the model registry. *)

\* An environment variable that is not set reads as undefined.
Undefined == "undefined"

EnvValues == {Undefined, "", "key"}

\* JavaScript truthiness of an environment variable's value.
Truthy(v) == v # Undefined /\ v # ""

AVAILABLE_MODELS ==
    << [provider |-> "openai", modelName |-> "openai/gpt-4o-mini",
        displayName |-> "GPT-4o Mini"],
       [provider |-> "openai", modelName |-> "openai/gpt-4o",
        displayName |-> "GPT-4o"],
       [provider |-> "gemini", modelName |-> "googleai/gemini-2.0-flash",
        displayName |-> "Gemini 2.0 Flash"],
       [provider |-> "gemini", modelName |-> "googleai/gemini-1.5-flash",
        displayName |-> "Gemini 1.5 Flash"] >>

\* A filter that reads the other provider's key.
ModelIsAvailableSwapped(model) ==
    IF model.provider = "gemini" THEN Truthy(openaiApiKey)
    ELSE IF model.provider = "openai" THEN Truthy(geminiApiKey)
    ELSE FALSE

\* The filter of getAvailableModels.
ModelIsAvailable(model) ==
    IF model.provider = "gemini" THEN Truthy(geminiApiKey)
    ELSE IF model.provider = "openai" THEN Truthy(openaiApiKey)
    ELSE FALSE

getAvailableModels == SelectSeq(AVAILABLE_MODELS, ModelIsAvailable)

NoApiKeysError ==
    [type |-> "Error", origin |-> "getDefaultModel",
     message |-> <<"N", "o", " ", "A", "P", "I", " ", "k", "e", "y", "s", " ",
                   "c", "o", "n", "f", "i", "g", "u", "r", "e", "d">>]

\* A default that asks for the Gemini key first.
getDefaultModelGeminiFirst ==
    IF Truthy(geminiApiKey)
    THEN [kind |-> "return", value |-> "googleai/gemini-2.0-flash"]
    ELSE IF Truthy(openaiApiKey)
    THEN [kind |-> "return", value |-> "openai/gpt-4o-mini"]
    ELSE [kind |-> "throw", error |-> NoApiKeysError]

\* getDefaultModel: the model name it returns, or the error it throws.
getDefaultModel ==
    IF Truthy(openaiApiKey)
    THEN [kind |-> "return", value |-> "openai/gpt-4o-mini"]
    ELSE IF Truthy(geminiApiKey)
    THEN [kind |-> "return", value |-> "googleai/gemini-2.0-flash"]
    ELSE [kind |-> "throw", error |-> NoApiKeysError]

\* The plugins array built at module load.
plugins ==
    (IF Truthy(geminiApiKey) THEN <<"googleAI">> ELSE <<>>)
    \o (IF Truthy(openaiApiKey) THEN <<"openAI">> ELSE <<>>)
    \o (IF Truthy(geminiApiKey) THEN <<"devLocalVectorstore">> ELSE <<>>)

\* const modelToUse = input.model || getDefaultModel()
ResolveModel(in) ==
    IF "model" \in DOMAIN in /\ in.model # ""
    THEN [kind |-> "return", value |-> in.model]
    ELSE getDefaultModel

----------------------------------------------------------------------------
(* researchFlow: the classification of a failure of the generation call.   *)

\* error instanceof Error
IsErrorInstance(error) ==
    error.type \in {"Error", "RateLimitError", "InsufficientBalanceError"}

\* A balance rule that forgets the insufficient_quota code.
HasBalanceMarkerNoQuota(errorMessage) ==
    \/ Includes(errorMessage, M402)
    \/ Includes(errorMessage, MInsufficientBalance)

\* The condition of the insufficient-balance rule.
HasBalanceMarker(errorMessage) ==
    \/ Includes(errorMessage, M402)
    \/ Includes(errorMessage, MInsufficientBalance)
    \/ Includes(errorMessage, MInsufficientQuota)

\* A rate-limit rule that forgets RESOURCE_EXHAUSTED.
HasRateMarkerNoResource(errorMessage) ==
    \/ Includes(errorMessage, M429)
    \/ Includes(errorMessage, MRate)
    \/ Includes(errorMessage, MQuota)

\* The condition of the rate-limit rule.
HasRateMarker(errorMessage) ==
    \/ Includes(errorMessage, M429)
    \/ Includes(errorMessage, MResourceExhausted)
    \/ Includes(errorMessage, MRate)
    \/ Includes(errorMessage, MQuota)

\* The positions where /retry in (\d+(?:\.\d+)?)/i matches.
RetryMatchStarts(s) ==
    { i \in 1..Len(s) :
        /\ i + Len(RetryPrefix) <= Len(s)
        /\ \A k \in 1..Len(RetryPrefix) : Lower(s[i + k - 1]) = RetryPrefix[k]
        /\ IsDigit(s[i + Len(RetryPrefix)]) }

\* errorMessage.match(...): the first match's integer digits and fraction
\* digits, as the bounds of each run in s; matched is FALSE for null.
retryMatch(s) ==
    IF RetryMatchStarts(s) = {} THEN [matched |-> FALSE]
    ELSE
        LET i == CHOOSE x \in RetryMatchStarts(s) :
                     \A y \in RetryMatchStarts(s) : x <= y
            intFrom == i + Len(RetryPrefix)
            intTo == DigitRunEnd(s, intFrom)
            hasFrac == /\ intTo + 2 <= Len(s)
                       /\ s[intTo + 1] = "."
                       /\ IsDigit(s[intTo + 2])
        IN  [matched |-> TRUE, intFrom |-> intFrom, intTo |-> intTo,
             hasFrac |-> hasFrac,
             fracTo |-> IF hasFrac THEN DigitRunEnd(s, intTo + 2) ELSE intTo]

\* parseInt in place of Math.ceil(parseFloat(...)): the fraction is dropped.
retrySecondsTruncated(s) ==
    LET m == retryMatch(s) IN
    IF ~m.matched THEN DefaultRetrySeconds
    ELSE DigitsValue(s, m.intFrom, m.intTo)

\* Math.ceil(parseFloat(retryMatch[1])), or the default without a match.
retrySeconds(s) ==
    LET m == retryMatch(s) IN
    IF ~m.matched THEN DefaultRetrySeconds
    ELSE DigitsValue(s, m.intFrom, m.intTo)
         + (IF /\ m.hasFrac
               /\ \E k \in (m.intTo + 2)..m.fracTo : s[k] # "0"
            THEN 1 ELSE 0)

NewInsufficientBalanceError ==
    [type |-> "InsufficientBalanceError", origin |-> "researchFlow",
     message |-> <<"Insufficient balance in your API account. Please add credits or try a different model.">>]

NewRateLimitError(seconds) ==
    [type |-> "RateLimitError", origin |-> "researchFlow",
     message |-> <<"Rate limit exceeded. Please wait ", ToString(seconds),
                   " seconds or try a different model.">>,
     retryAfterSeconds |-> seconds]

\* A catch block that wraps what it caught: throw new Error(...).
RethrowWrapped(error) ==
    [type |-> "Error", origin |-> "researchFlow", message |-> error.message]

\* The last statement of the catch block: throw error.
Rethrow(error) == error

\* A catch block that tests the rate-limit rule before the balance rule.
ClassifyRateFirst(error) ==
    IF IsErrorInstance(error)
    THEN IF HasRateMarker(error.message)
         THEN NewRateLimitError(retrySeconds(error.message))
         ELSE IF HasBalanceMarker(error.message)
         THEN NewInsufficientBalanceError
         ELSE Rethrow(error)
    ELSE Rethrow(error)

\* The catch block of researchFlow: the value it throws for a caught error.
Classify(error) ==
    IF IsErrorInstance(error)
    THEN IF HasBalanceMarker(error.message)
         THEN NewInsufficientBalanceError
         ELSE IF HasRateMarker(error.message)
         THEN NewRateLimitError(retrySeconds(error.message))
         ELSE Rethrow(error)
    ELSE Rethrow(error)

----------------------------------------------------------------------------
(* The values of the flows. *)

NoInput == [question |-> ""]
NoResult == [finishReason |-> "none"]
NoValue == [none |-> TRUE]
NoModel == [modelName |-> "none"]

ModelNames == { AVAILABLE_MODELS[i].modelName : i \in DOMAIN AVAILABLE_MODELS }

\* The models a caller can name: none (the property is absent), the empty
\* string, or a model name.
WithModel(in, names) == {in} \cup { in @@ [model |-> m] : m \in names }

\* FlowInputSchema: question, and the optional model (history is modelled
\* with the interactive session).
FlowInputs(names) == WithModel([question |-> "q"], names)

JudgeInputs(names) ==
    WithModel([question |-> "q", answer |-> "a", expected_facts |-> <<"f">>],
              names)

\* The command-line callers (index.ts, evaluator.ts) select a model first and
\* pass its name with every invocation; a flow invoked without them (the
\* developer UI) gets any input.
CallerModels ==
    IF selectedModel = NoModel THEN {"", "openai/gpt-4o"}
    ELSE {selectedModel.modelName}

\* Of the inputs built by WithModel for CallerModels, those a caller passes:
\* a command-line caller always names its model.
CallerInputs(inputs, bare) ==
    IF selectedModel = NoModel THEN inputs ELSE inputs \ bare

Sources ==
    { [title |-> "t1", url |-> "u1"], [title |-> "t2", url |-> "u2"] }

SourceSeqs == UNION { [1..n -> Sources] : n \in 0..MaxSources }

\* The structured objects AnswerSchema admits: answer, and sources, which the
\* schema declares optional, so an object without the property is valid.  The
\* handler hands result.output on without parsing it through the schema.
StructuredOutputs ==
    { [answer |-> "structured answer", sources |-> ss] : ss \in SourceSeqs }
    \cup { [answer |-> "structured answer"] }

\* What the research prompt can return: output and text may each be
\* missing (null or undefined).
GenResults ==
    LET base == [finishReason |-> "stop"] IN
    {base}
    \cup { base @@ [text |-> t] : t \in {"", "raw text"} }
    \cup { base @@ [output |-> o] : o \in StructuredOutputs }
    \cup { base @@ [output |-> o, text |-> t] :
             o \in StructuredOutputs, t \in {"", "raw text"} }

\* What the judge prompt can return.
JudgeOutputs ==
    { [score |-> sc, reasoning |-> "r"] : sc \in {0, 4, 6, 10} }

JudgeResults ==
    LET base == [finishReason |-> "stop"] IN
    {base} \cup { base @@ [output |-> o] : o \in JudgeOutputs }


\* A fallback that has no placeholder for a result without text.
ResearchAnswerNoPlaceholder(res) ==
    IF "output" \notin DOMAIN res
    THEN [answer |-> IF "text" \in DOMAIN res THEN res.text ELSE "",
          sources |-> <<>>]
    ELSE res.output

\* The value researchFlow returns for the generation result res.
ResearchAnswer(res) ==
    IF "output" \notin DOMAIN res
    THEN [answer |-> IF "text" \in DOMAIN res THEN res.text
                     ELSE "Could not generate a response.",
          sources |-> <<>>]
    ELSE res.output

\* The value judgeFlow returns for the generation result res.
JudgeAnswer(res) ==
    IF "output" \notin DOMAIN res
    THEN [score |-> 0, reasoning |-> "Failed to get judge response"]
    ELSE res.output

----------------------------------------------------------------------------
(* The state machine. *)

Init ==
    /\ tavilyApiKey \in {Undefined, "key"}
    /\ geminiApiKey \in EnvValues
    /\ openaiApiKey \in EnvValues
    /\ startup = "loading"
    /\ flow = "none"
    /\ pc = "idle"
    /\ input = NoInput
    /\ modelToUse = ""
    /\ genCalls = 0
    /\ backend = "pending"
    /\ genResult = NoResult
    /\ genError = NoError
    /\ outcome = "none"
    /\ returned = NoValue
    /\ thrown = NoError
    /\ selectedModel = NoModel
    /\ evalPc = "idle"
    /\ testCases = <<>>
    /\ caseIndex = 0
    /\ results = <<>>
    /\ agentResponse = NoValue
    /\ trace = <<>>
    /\ summary = NoValue
    /\ searchPc = "idle"
    /\ searchArgs = NoValue
    /\ providerCalls = <<>>
    /\ providerOutcome = NoValue
    /\ searchOutcome = NoValue
    /\ sessPc = "idle"
    /\ conversationHistory = <<>>
    /\ outstanding = <<>>
    /\ rlPaused = FALSE
    /\ screen = <<>>
    /\ lastOutcome = NoValue
    /\ linesRead = 0
    /\ indexerPc = "idle"
    /\ chunkArgs = NoValue
    /\ chunks = <<>>

envVars == <<tavilyApiKey, geminiApiKey, openaiApiKey>>
callVars == <<flow, pc, input, modelToUse, genCalls, backend, genResult,
              genError, outcome, returned, thrown>>
callerVars == <<selectedModel>>
evalVars == <<evalPc, testCases, caseIndex, results, agentResponse, trace,
              summary>>
searchVars == <<searchPc, searchArgs, providerCalls, providerOutcome,
                searchOutcome>>
sessionVars == <<sessPc, conversationHistory, outstanding, rlPaused, screen,
                 lastOutcome, linesRead>>
indexerVars == <<indexerPc, chunkArgs, chunks>>

\* A module load that does not require a provider plugin.
StartupWithoutProviderCheck ==
    /\ startup = "loading"
    /\ startup' = IF ~Truthy(tavilyApiKey) THEN "configError" ELSE "ready"
    /\ UNCHANGED <<indexerVars, sessionVars, searchVars, evalVars, envVars, callVars, callerVars>>

\* The module load of agent.ts: it throws when the search key or every
\* provider key is missing, and otherwise defines the tools and the flow.
Startup ==
    /\ startup = "loading"
    /\ startup' = IF ~Truthy(tavilyApiKey) THEN "configError"
                  ELSE IF Len(plugins) = 0 THEN "configError"
                  ELSE "ready"
    /\ UNCHANGED <<indexerVars, sessionVars, searchVars, evalVars, envVars, callVars, callerVars>>

\* selectModel with a valid final choice: the only model when there is one,
\* the chosen number otherwise.
selectModel(selection) ==
    /\ startup = "ready"
    /\ pc = "idle"
    /\ Len(getAvailableModels) # 0
    /\ selection \in 1..Len(getAvailableModels)
    /\ selectedModel' = IF Len(getAvailableModels) = 1
                        THEN getAvailableModels[1]
                        ELSE getAvailableModels[selection]
    /\ UNCHANGED <<indexerVars, sessionVars, searchVars, evalVars, envVars, startup, callVars>>

\* The start of a flow's handler up to its generation request; a failure of
\* getDefaultModel ends the invocation with the value toThrow.
Begin(name, in, toThrow) ==
    /\ flow' = name
    /\ input' = in
    /\ backend' = "pending"
    /\ genResult' = NoResult
    /\ genError' = NoError
    /\ returned' = NoValue
    /\ LET m == ResolveModel(in) IN
         IF m.kind = "throw"
         THEN /\ pc' = "done"
              /\ modelToUse' = ""
              /\ genCalls' = 0
              /\ outcome' = "thrown"
              /\ thrown' = toThrow
         ELSE /\ pc' = "awaiting"
              /\ modelToUse' = m.value
              /\ genCalls' = 1
              /\ outcome' = "none"
              /\ thrown' = NoError
    /\ UNCHANGED <<indexerVars, sessionVars, searchVars, evalVars, envVars, startup, callerVars>>

\* researchFlow is invoked with the input in.
InvokeResearchFlow(in) ==
    /\ startup = "ready"
    /\ pc = "idle"
    /\ in \in CallerInputs(FlowInputs(CallerModels), FlowInputs({}))
    /\ Begin("researchFlow", in, Classify(NoApiKeysError))

\* researchFlow's generation request returns res.
GenerationReturns(res) ==
    /\ flow = "researchFlow"
    /\ pc = "awaiting"
    /\ backend' = "returned"
    /\ genResult' = res
    /\ outcome' = "returned"
    /\ returned' = ResearchAnswer(res)
    /\ pc' = "done"
    /\ UNCHANGED <<indexerVars, sessionVars, searchVars, evalVars, envVars, startup, callerVars, flow, input, modelToUse,
                   genCalls, genError, thrown>>

\* A flow that issues the request again after a rate-limit failure.
GenerationFailsRetrying(error) ==
    /\ flow = "researchFlow"
    /\ pc = "awaiting"
    /\ backend' = "failed"
    /\ genError' = error
    /\ IF Classify(error).type = "RateLimitError"
       THEN /\ pc' = "awaiting"
            /\ genCalls' = genCalls + 1
            /\ UNCHANGED <<outcome, thrown>>
       ELSE /\ pc' = "done"
            /\ outcome' = "thrown"
            /\ thrown' = Classify(error)
            /\ UNCHANGED genCalls
    /\ UNCHANGED <<indexerVars, sessionVars, searchVars, evalVars, envVars, startup, callerVars, flow, input, modelToUse,
                   genResult, returned>>

\* researchFlow's generation request throws error.
GenerationFails(error) ==
    /\ flow = "researchFlow"
    /\ pc = "awaiting"
    /\ backend' = "failed"
    /\ genError' = error
    /\ outcome' = "thrown"
    /\ thrown' = Classify(error)
    /\ pc' = "done"
    /\ UNCHANGED <<indexerVars, sessionVars, searchVars, evalVars, envVars, startup, callerVars, flow, input, modelToUse,
                   genCalls, genResult, returned>>

\* judgeFlow is invoked with the input in; it has no catch block.
InvokeJudgeFlow(in) ==
    /\ startup = "ready"
    /\ pc = "idle"
    /\ in \in CallerInputs(JudgeInputs(CallerModels), JudgeInputs({}))
    /\ Begin("judgeFlow", in, NoApiKeysError)

\* judgeFlow's generation request returns res.
JudgeReturns(res) ==
    /\ flow = "judgeFlow"
    /\ pc = "awaiting"
    /\ backend' = "returned"
    /\ genResult' = res
    /\ outcome' = "returned"
    /\ returned' = JudgeAnswer(res)
    /\ pc' = "done"
    /\ UNCHANGED <<indexerVars, sessionVars, searchVars, evalVars, envVars, startup, callerVars, flow, input, modelToUse,
                   genCalls, genError, thrown>>

\* judgeFlow's generation request throws error: the flow throws it.
JudgeFails(error) ==
    /\ flow = "judgeFlow"
    /\ pc = "awaiting"
    /\ backend' = "failed"
    /\ genError' = error
    /\ outcome' = "thrown"
    /\ thrown' = error
    /\ pc' = "done"
    /\ UNCHANGED <<indexerVars, sessionVars, searchVars, evalVars, envVars, startup, callerVars, flow, input, modelToUse,
                   genCalls, genResult, returned>>

\* The caller has taken the flow's outcome; the next invocation can start.
Settle ==
    /\ pc = "done"
    /\ pc' = "idle"
    /\ flow' = "none"
    /\ input' = NoInput
    /\ modelToUse' = ""
    /\ genCalls' = 0
    /\ backend' = "pending"
    /\ genResult' = NoResult
    /\ genError' = NoError
    /\ outcome' = "none"
    /\ returned' = NoValue
    /\ thrown' = NoError
    /\ UNCHANGED <<indexerVars, sessionVars, searchVars, evalVars, envVars, startup, callerVars>>

Next ==
    \/ Startup
    \/ \E selection \in 1..Len(AVAILABLE_MODELS) : selectModel(selection)
    \/ \E in \in FlowInputs({""} \cup ModelNames) : InvokeResearchFlow(in)
    \/ \E res \in GenResults : GenerationReturns(res)
    \/ \E error \in Failures : GenerationFails(error)
    \/ \E in \in JudgeInputs({""} \cup ModelNames) : InvokeJudgeFlow(in)
    \/ \E res \in JudgeResults : JudgeReturns(res)
    \/ \E error \in JudgeFailures : JudgeFails(error)
    \/ Settle

Spec == Init /\ [][Next]_vars

----------------------------------------------------------------------------
(* The claims. *)

\* researchFlow has caught a failure of its generation call.
ResearchFailed == flow = "researchFlow" /\ backend = "failed"

\* researchFlow's generation call has returned.
ResearchReturned == flow = "researchFlow" /\ backend = "returned"

\* The diagnostic text of the failure carries a marker of the balance rule.
BalanceMarked ==
    /\ genError.type = "Error"
    /\ \/ Includes(genError.message, M402)
       \/ Includes(genError.message, MInsufficientBalance)
       \/ Includes(genError.message, MInsufficientQuota)

\* The diagnostic text of the failure carries a marker of the throttling rule.
RateMarked ==
    /\ genError.type = "Error"
    /\ \/ Includes(genError.message, M429)
       \/ Includes(genError.message, MResourceExhausted)
       \/ Includes(genError.message, MRate)
       \/ Includes(genError.message, MQuota)

\* C1: a failure of the generation call whose diagnostic text (the message
\* of the Error) carries both a balance marker and a rate-limit marker is
\* raised as InsufficientBalanceError, never as RateLimitError.
C1_BalanceWinsOverRateLimit ==
    (ResearchFailed /\ BalanceMarked /\ RateMarked)
        => /\ outcome = "thrown"
           /\ thrown.type = "InsufficientBalanceError"

C1_Witness ==
    /\ ResearchFailed
    /\ pc = "done"
    /\ genError.type = "Error"
    /\ genError.message = MQuota \o M402
    /\ thrown.type = "InsufficientBalanceError"

C4_ThreeOutcomes ==
    ResearchFailed
        => /\ outcome = "thrown"
           /\ returned = NoValue
           /\ \/ thrown.type = "InsufficientBalanceError"
              \/ thrown.type = "RateLimitError"
              \/ thrown = genError
           /\ (~BalanceMarked /\ ~RateMarked) => thrown = genError

C4_Witness ==
    /\ ResearchFailed
    /\ pc = "done"
    /\ genError.type = "Value"
    /\ genError.message = M402 \o M429
    /\ thrown = genError

RECURSIVE Pow10(_)
Pow10(d) == IF d = 0 THEN 1 ELSE 10 * Pow10(d - 1)

\* The number N of the first "retry in <N>" of the text s, as the pair of
\* N * 10^digits and the count of its fraction digits.
RetryLiteral(s) ==
    LET m == retryMatch(s)
        digits == IF m.hasFrac THEN m.fracTo - (m.intTo + 1) ELSE 0
    IN  [digits |-> digits,
         scaled |-> DigitsValue(s, m.intFrom, m.intTo) * Pow10(digits)
                    + (IF m.hasFrac
                       THEN DigitsValue(s, m.intTo + 2, m.fracTo) ELSE 0)]

\* researchFlow has raised a RateLimitError for the caught failure.
RateLimited == ResearchFailed /\ thrown.type = "RateLimitError"

\* C5 as stated: the RateLimitError of a diagnostic with "retry in <N>"
\* carries N itself, and the default 30 without that pattern.
C5_RetryHintIsN ==
    RateLimited
        => IF retryMatch(genError.message).matched
           THEN LET n == RetryLiteral(genError.message) IN
                thrown.retryAfterSeconds * Pow10(n.digits) = n.scaled
           ELSE thrown.retryAfterSeconds = DefaultRetrySeconds

\* C5, amended: the RateLimitError of a diagnostic with "retry in <N>"
\* (first match, any letter case, N a decimal number) carries N rounded up
\* to the next integer, which is N for an integer such as 45; without the
\* pattern it carries the default 30.
C5_RetryHintIsCeilN ==
    RateLimited
        => IF retryMatch(genError.message).matched
           THEN LET n == RetryLiteral(genError.message)
                    r == thrown.retryAfterSeconds
                IN  /\ r * Pow10(n.digits) >= n.scaled
                    /\ (r - 1) * Pow10(n.digits) < n.scaled
           ELSE thrown.retryAfterSeconds = DefaultRetrySeconds

C5_Witness ==
    /\ RateLimited
    /\ pc = "done"
    /\ genError.message =
         M429 \o <<"r", "e", "t", "r", "y", " ", "i", "n", " ", "4", "5">>
    /\ thrown.retryAfterSeconds = 45

\* C6: when the generation call returns, researchFlow returns: the
\* structured output as it is when there is one, and otherwise the raw text
\* (a fixed placeholder when there is no text) with empty sources.
C6_ReturnsOutputOrFallback ==
    ResearchReturned
        => /\ outcome = "returned"
           /\ thrown = NoError
           /\ "output" \in DOMAIN genResult => returned = genResult.output
           /\ "output" \notin DOMAIN genResult =>
                /\ DOMAIN returned = {"answer", "sources"}
                /\ returned.sources = <<>>
                /\ "text" \in DOMAIN genResult =>
                       returned.answer = genResult.text
                /\ "text" \notin DOMAIN genResult =>
                       returned.answer = "Could not generate a response."

C6_Witness ==
    /\ ResearchReturned
    /\ pc = "done"
    /\ DOMAIN genResult = {"finishReason"}
    /\ returned = [answer |-> "Could not generate a response.",
                   sources |-> <<>>]

\* C7: every answer researchFlow returns has a sources list, on the
\* structured path and on the fallback path, in the backend's order.
C7_SourcesNeverAbsent ==
    ResearchReturned
        => /\ "sources" \in DOMAIN returned
           /\ ("output" \in DOMAIN genResult
               /\ "sources" \in DOMAIN genResult.output)
                  => returned.sources = genResult.output.sources

\* C8: an invocation of researchFlow issues one generation request: one is
\* outstanding while it waits, and one has been issued when it ends,
\* whatever the request's outcome.
C8_OneGenerationRequest ==
    (flow = "researchFlow" /\ pc \in {"awaiting", "done"}) => genCalls = 1

C8_Witness ==
    /\ flow = "researchFlow"
    /\ pc = "done"
    /\ thrown.type = "RateLimitError"
    /\ genCalls = 1

\* The provider's credential is present: set and not empty.
CredentialPresent(provider) ==
    \/ provider = "openai" /\ openaiApiKey \notin {Undefined, ""}
    \/ provider = "gemini" /\ geminiApiKey \notin {Undefined, ""}

SomeProviderPresent == CredentialPresent("openai") \/ CredentialPresent("gemini")

\* The place of a model in the catalog.
CatalogIndex(model) ==
    CHOOSE i \in DOMAIN AVAILABLE_MODELS : AVAILABLE_MODELS[i] = model

\* C9: with a provider credential present, getAvailableModels is not empty,
\* holds exactly the catalog's entries whose provider has its credential,
\* and lists them in the catalog's order.
C9_AvailableModels ==
    SomeProviderPresent
        => LET r == getAvailableModels IN
           /\ Len(r) >= 1
           /\ \A j \in DOMAIN r :
                \E i \in DOMAIN AVAILABLE_MODELS : r[j] = AVAILABLE_MODELS[i]
           /\ \A i \in DOMAIN AVAILABLE_MODELS :
                (\E j \in DOMAIN r : r[j] = AVAILABLE_MODELS[i])
                    <=> CredentialPresent(AVAILABLE_MODELS[i].provider)
           /\ \A j, k \in DOMAIN r :
                j < k => CatalogIndex(r[j]) < CatalogIndex(r[k])

C9_Witness ==
    /\ startup = "ready"
    /\ geminiApiKey = "key"
    /\ openaiApiKey = ""
    /\ selectedModel = AVAILABLE_MODELS[4]
    /\ Len(getAvailableModels) = 2

\* The input names no model: the property is absent or the empty string.
CarriesNoModel(in) == "model" \notin DOMAIN in \/ in.model = ""

\* C10: getDefaultModel returns the name of the first available model when
\* a provider credential is present and throws when none is; researchFlow
\* and judgeFlow issue their request with it exactly when the input names
\* no model, and with the input's model otherwise.
C10_DefaultModel ==
    /\ SomeProviderPresent =>
         /\ getDefaultModel.kind = "return"
         /\ getDefaultModel.value = getAvailableModels[1].modelName
    /\ ~SomeProviderPresent => getDefaultModel.kind = "throw"
    /\ (flow \in {"researchFlow", "judgeFlow"} /\ pc \in {"awaiting", "done"})
         => IF CarriesNoModel(input)
            THEN modelToUse = getAvailableModels[1].modelName
            ELSE modelToUse = input.model

C10_Witness ==
    /\ flow = "judgeFlow"
    /\ pc = "awaiting"
    /\ "model" \notin DOMAIN input
    /\ geminiApiKey = "key"
    /\ ~CredentialPresent("openai")
    /\ modelToUse = "googleai/gemini-2.0-flash"

\* C11: with neither provider credential present the module load ends in the
\* configuration error, so the flows are never defined: no flow is ever
\* invoked and no generation request is ever issued.
C11_NoProviderNoGeneration ==
    ~SomeProviderPresent
        => /\ startup \in {"loading", "configError"}
           /\ flow = "none"
           /\ pc = "idle"
           /\ genCalls = 0

C11_Witness ==
    /\ tavilyApiKey = "key"
    /\ geminiApiKey = Undefined
    /\ openaiApiKey = ""
    /\ startup = "configError"

----------------------------------------------------------------------------
(* The evaluation run of src/evaluator.ts: runEvaluations.                  *)

\* Most test cases of a dataset.
MaxCases == 3

\* The k-th test case of the dataset file.
TestCase(k) ==
    [id |-> "case-" \o ToString(k),
     question |-> "question " \o ToString(k),
     expected_facts |-> <<"fact " \o ToString(k)>>]

\* The datasets loadTestCases can read: any number of cases, none included.
Datasets == { [k \in 1..n |-> TestCase(k)] : n \in 0..MaxCases }

\* The positions of the run.
EvalPositions ==
    {"idle", "loading", "running", "awaitingResearch", "judging",
     "awaitingJudge", "recorded", "pausing", "aggregating", "done"}

\* An answer longer than the preview.
LongAnswer ==
    "The capital of France is Paris. Paris has been the capital since the tenth century, it is the seat of the government and of the parliament, and it is the largest city of the country."

\* What the research prompt returns during a run.
EvalGenResults ==
    { [finishReason |-> "stop",
       output |-> [answer |-> LongAnswer, sources |-> <<>>]] }

\* What the research prompt throws during a run: a throttled request, an
\* exhausted balance, and a value that is not an Error.
EvalGenFailures ==
    { [type |-> "Error", origin |-> "backend", message |-> M429],
      [type |-> "Error", origin |-> "backend", message |-> M402],
      [type |-> "Value", origin |-> "backend",
       message |-> <<"t", "i", "m", "e", "o", "u", "t">>] }

\* What the judge prompt returns during a run: JudgeOutputSchema takes any
\* number as the score.
EvalJudgeResults ==
    { [finishReason |-> "stop", output |-> [score |-> sc, reasoning |-> "r"]] :
        sc \in {4, 8, 11} }
    \cup { [finishReason |-> "stop"] }

\* What the judge prompt throws during a run.
EvalJudgeFailures ==
    { [type |-> "Error", origin |-> "backend", message |-> M429] }

\* The default of truncate's maxLength.
TruncateLength == 150

\* truncate(text)
truncate(text) ==
    IF Len(text) <= TruncateLength THEN text
    ELSE SubSeq(text, 1, TruncateLength) \o "..."

\* The input of the run's researchFlow call for testCase.
ResearchInputOf(testCase, model) ==
    [question |-> testCase.question, model |-> model.modelName]

\* A judge input that names no model: the judge would use the default.
JudgeInputOfDefaultModel(testCase, response, model) ==
    [question |-> testCase.question, answer |-> response.answer,
     expected_facts |-> testCase.expected_facts]

\* The input of the run's judgeFlow call for testCase.
JudgeInputOf(testCase, response, model) ==
    [question |-> testCase.question, answer |-> response.answer,
     expected_facts |-> testCase.expected_facts, model |-> model.modelName]

\* A record that drops the judge's score.
SuccessRecordWithoutScore(testCase, response, judgeResult) ==
    [id |-> testCase.id, question |-> testCase.question,
     answerPreview |-> truncate(response.answer), score |-> 0,
     reasoning |-> judgeResult.reasoning, success |-> TRUE]

\* The record pushed at the end of the try block.
SuccessRecord(testCase, response, judgeResult) ==
    [id |-> testCase.id, question |-> testCase.question,
     answerPreview |-> truncate(response.answer), score |-> judgeResult.score,
     reasoning |-> judgeResult.reasoning, success |-> TRUE]

\* error instanceof Error ? error.message : String(error)
ErrorMessageOf(error) == error.message

\* A catch block that words the record after the kind of the failure.
FailureRecordByType(testCase, error) ==
    LET errorMessage ==
            IF error.type = "RateLimitError" THEN <<"rate limited">>
            ELSE ErrorMessageOf(error) IN
    [id |-> testCase.id, question |-> testCase.question,
     answerPreview |-> "N/A", score |-> 0,
     reasoning |-> <<"Error: ">> \o errorMessage, success |-> FALSE,
     error |-> errorMessage]

\* The record pushed by the catch block.
FailureRecord(testCase, error) ==
    LET errorMessage == ErrorMessageOf(error) IN
    [id |-> testCase.id, question |-> testCase.question,
     answerPreview |-> "N/A", score |-> 0,
     reasoning |-> <<"Error: ">> \o errorMessage, success |-> FALSE,
     error |-> errorMessage]

\* A list that takes the newest result first.
PushResultFirst(rs, r) == <<r>> \o rs

\* results.push(r)
PushResult(rs, r) == Append(rs, r)

\* A pause after every case, the last one too.
ShouldPauseAlways(i, n) == i < n

\* The condition of the pause between cases: i < testCases.length - 1.
ShouldPause(i, n) == i < n - 1

\* The score from which a successful case counts as passed.
PassThreshold == 6

\* A number that is the result of a division: num / den.
Quotient(num, den) == [num |-> num, den |-> den]

\* Number.prototype.toFixed(0) of a quotient that is not negative: the
\* nearest integer, the larger one on a tie; 0 / 0 is NaN.
ToFixed0(q) ==
    IF q.den = 0 THEN (IF q.num = 0 THEN "NaN" ELSE "Infinity")
    ELSE ToString((2 * q.num + q.den) \div (2 * q.den))

\* A filter that takes a score of 0 for a failure.
IsSuccessfulNonZero(r) == r.success /\ r.score # 0

IsSuccessful(r) == r.success

IsPassed(r) == r.score >= PassThreshold

RECURSIVE TotalScore(_)
\* successfulResults.reduce((sum, r) => sum + r.score, 0)
TotalScore(rs) ==
    IF rs = <<>> THEN 0 ELSE TotalScore(SubSeq(rs, 1, Len(rs) - 1))
                             + rs[Len(rs)].score

\* A summary whose pass rate is taken over the successful cases only.
AggregateOverSuccessful(rs) ==
    LET successfulResults == SelectSeq(rs, IsSuccessful)
        totalScore == TotalScore(successfulResults)
    IN [averageScore |-> IF Len(successfulResults) > 0
                         THEN Quotient(totalScore, Len(successfulResults))
                         ELSE Quotient(0, 1),
        passRate |-> ToFixed0(Quotient(
                         Len(SelectSeq(successfulResults, IsPassed)) * 100,
                         Len(successfulResults))),
        successful |-> Len(successfulResults),
        total |-> Len(rs)]

\* The numbers of the final summary.
Aggregate(rs) ==
    LET successfulResults == SelectSeq(rs, IsSuccessful)
        totalScore == TotalScore(successfulResults)
    IN [averageScore |-> IF Len(successfulResults) > 0
                         THEN Quotient(totalScore, Len(successfulResults))
                         ELSE Quotient(0, 1),
        passRate |-> ToFixed0(Quotient(
                         Len(SelectSeq(successfulResults, IsPassed)) * 100,
                         Len(rs))),
        successful |-> Len(successfulResults),
        total |-> Len(rs)]

\* The evaluator is a process of its own: the flows' variables stay as the
\* module load left them.
agentVars == <<envVars, startup, callVars>>

\* selectModel of evaluator.ts with a valid final choice.
EvalSelectModel(selection) ==
    /\ startup = "ready"
    /\ evalPc = "idle"
    /\ Len(getAvailableModels) # 0
    /\ selection \in 1..Len(getAvailableModels)
    /\ selectedModel' = IF Len(getAvailableModels) = 1
                        THEN getAvailableModels[1]
                        ELSE getAvailableModels[selection]
    /\ evalPc' = "loading"
    /\ UNCHANGED <<indexerVars, sessionVars, searchVars, agentVars, testCases, caseIndex, results, agentResponse,
                   trace, summary>>

\* loadTestCases reads dataset; the loop starts, or is skipped when the
\* dataset is empty.
loadTestCases(dataset) ==
    /\ evalPc = "loading"
    /\ testCases' = dataset
    /\ results' = <<>>
    /\ caseIndex' = 0
    /\ evalPc' = IF 0 < Len(dataset) THEN "running" ELSE "aggregating"
    /\ UNCHANGED <<indexerVars, sessionVars, searchVars, agentVars, selectedModel, agentResponse, trace, summary>>

\* The test case of the current iteration: testCases[i].
CurrentCase == testCases[caseIndex + 1]

\* Step 1 of an iteration: researchFlow is called.
EvalInvokeResearch ==
    /\ evalPc = "running"
    /\ trace' = Append(trace,
                       [ev |-> "call", flow |-> "researchFlow",
                        case |-> caseIndex,
                        input |-> ResearchInputOf(CurrentCase, selectedModel)])
    /\ evalPc' = "awaitingResearch"
    /\ UNCHANGED <<indexerVars, sessionVars, searchVars, agentVars, selectedModel, testCases, caseIndex, results,
                   agentResponse, summary>>

\* researchFlow returns: its generation request returned res.
EvalResearchReturns(res) ==
    /\ evalPc = "awaitingResearch"
    /\ agentResponse' = ResearchAnswer(res)
    /\ trace' = Append(trace,
                       [ev |-> "return", flow |-> "researchFlow",
                        case |-> caseIndex, value |-> ResearchAnswer(res)])
    /\ evalPc' = "judging"
    /\ UNCHANGED <<indexerVars, sessionVars, searchVars, agentVars, selectedModel, testCases, caseIndex, results,
                   summary>>

\* A run that a failing case ends: the loop is left without a record.
CatchLeavingLoop(flowName, caught) ==
    /\ trace' = Append(trace,
                       [ev |-> "throw", flow |-> flowName, case |-> caseIndex,
                        error |-> caught])
    /\ agentResponse' = NoValue
    /\ evalPc' = "aggregating"
    /\ UNCHANGED <<indexerVars, sessionVars, searchVars, agentVars, selectedModel, testCases, caseIndex, results,
                   summary>>

\* The catch block of an iteration, entered with the value caught.
Catch(flowName, caught) ==
    /\ results' = PushResult(results, FailureRecord(CurrentCase, caught))
    /\ trace' = trace \o
                <<[ev |-> "throw", flow |-> flowName, case |-> caseIndex,
                   error |-> caught],
                  [ev |-> "record", case |-> caseIndex]>>
    /\ agentResponse' = NoValue
    /\ evalPc' = "recorded"
    /\ UNCHANGED <<indexerVars, sessionVars, searchVars, agentVars, selectedModel, testCases, caseIndex, summary>>

\* researchFlow throws: its generation request threw error, and the flow's
\* own catch block classified it.
EvalResearchThrows(error) ==
    /\ evalPc = "awaitingResearch"
    /\ Catch("researchFlow", Classify(error))

\* Step 2 of an iteration: judgeFlow is called.
EvalInvokeJudge ==
    /\ evalPc = "judging"
    /\ trace' = Append(trace,
                       [ev |-> "call", flow |-> "judgeFlow",
                        case |-> caseIndex,
                        input |-> JudgeInputOf(CurrentCase, agentResponse,
                                               selectedModel)])
    /\ evalPc' = "awaitingJudge"
    /\ UNCHANGED <<indexerVars, sessionVars, searchVars, agentVars, selectedModel, testCases, caseIndex, results,
                   agentResponse, summary>>

\* judgeFlow returns: its generation request returned res; the case is
\* recorded as successful.
EvalJudgeReturns(res) ==
    /\ evalPc = "awaitingJudge"
    /\ results' = PushResult(results,
                             SuccessRecord(CurrentCase, agentResponse,
                                           JudgeAnswer(res)))
    /\ trace' = trace \o
                <<[ev |-> "return", flow |-> "judgeFlow", case |-> caseIndex,
                   result |-> res, value |-> JudgeAnswer(res)],
                  [ev |-> "record", case |-> caseIndex]>>
    /\ agentResponse' = NoValue
    /\ evalPc' = "recorded"
    /\ UNCHANGED <<indexerVars, sessionVars, searchVars, agentVars, selectedModel, testCases, caseIndex, summary>>

\* judgeFlow throws what its generation request threw.
EvalJudgeThrows(error) ==
    /\ evalPc = "awaitingJudge"
    /\ Catch("judgeFlow", error)

\* The increment and the test of the loop.
NextIteration ==
    /\ caseIndex' = caseIndex + 1
    /\ evalPc' = IF caseIndex + 1 < Len(testCases) THEN "running"
                 ELSE "aggregating"

\* The end of an iteration: the pause starts, or the loop goes on at once.
EvalEndIteration ==
    /\ evalPc = "recorded"
    /\ IF ShouldPause(caseIndex, Len(testCases))
       THEN /\ evalPc' = "pausing"
            /\ trace' = Append(trace, [ev |-> "pause", case |-> caseIndex])
            /\ UNCHANGED caseIndex
       ELSE /\ NextIteration
            /\ UNCHANGED trace
    /\ UNCHANGED <<indexerVars, sessionVars, searchVars, agentVars, selectedModel, testCases, results,
                   agentResponse, summary>>

\* A pause whose timer never fires.
EvalPauseNeverEnds ==
    /\ evalPc = "pausing"
    /\ UNCHANGED vars

\* The timer of the pause fires.
EvalPauseEnds ==
    /\ evalPc = "pausing"
    /\ NextIteration
    /\ UNCHANGED <<indexerVars, sessionVars, searchVars, agentVars, selectedModel, testCases, results,
                   agentResponse, trace, summary>>

\* The final summary.
EvalAggregate ==
    /\ evalPc = "aggregating"
    /\ summary' = Aggregate(results)
    /\ evalPc' = "done"
    /\ UNCHANGED <<indexerVars, sessionVars, searchVars, agentVars, selectedModel, testCases, caseIndex, results,
                   agentResponse, trace>>

\* The evaluator's process: the keys are set or not set.
EvalInit ==
    /\ Init
    /\ geminiApiKey # ""
    /\ openaiApiKey # ""

EvalNext ==
    \/ Startup
    \/ \E selection \in 1..Len(AVAILABLE_MODELS) : EvalSelectModel(selection)
    \/ \E dataset \in Datasets : loadTestCases(dataset)
    \/ EvalInvokeResearch
    \/ \E res \in EvalGenResults : EvalResearchReturns(res)
    \/ \E error \in EvalGenFailures : EvalResearchThrows(error)
    \/ EvalInvokeJudge
    \/ \E res \in EvalJudgeResults : EvalJudgeReturns(res)
    \/ \E error \in EvalJudgeFailures : EvalJudgeThrows(error)
    \/ EvalEndIteration
    \/ EvalPauseEnds
    \/ EvalAggregate

SpecEval == EvalInit /\ [][EvalNext]_vars

\* The run with its scheduling: a step that can be taken is taken, which for
\* the awaited calls says that each of them returns or fails and that the
\* timer of the pause fires.
SpecEvalFair == SpecEval /\ WF_vars(EvalNext)

----------------------------------------------------------------------------
(* The claims on the evaluation run. *)

\* The places of the history that hold an event of kind ev.
Events(ev) == { p \in DOMAIN trace : trace[p].ev = ev }

\* The places of the history where flowName did ev for the case numbered k.
FlowEvents(ev, flowName, k) ==
    { p \in Events(ev) : trace[p].flow = flowName /\ trace[p].case = k }

\* The loop is over.
LoopOver == evalPc \in {"aggregating", "done"}

\* C12: a case that fails, in researchFlow or in judgeFlow, is recorded with
\* success = false and does not end the run: when the loop is over the result
\* list is as long as the dataset and every case, those after a failed one
\* included, was attempted.
C12_FailingCaseDoesNotAbort ==
    /\ \A p \in Events("throw") :
         /\ trace[p].case < Len(results)
         /\ results[trace[p].case + 1].success = FALSE
    /\ LoopOver =>
         /\ Len(results) = Len(testCases)
         /\ \A k \in 0..(Len(testCases) - 1) :
              FlowEvents("call", "researchFlow", k) # {}

C12_Witness ==
    /\ evalPc = "done"
    /\ Len(testCases) = 3
    /\ FlowEvents("throw", "researchFlow", 0) # {}
    /\ FlowEvents("throw", "judgeFlow", 1) # {}
    /\ Len(results) = 3
    /\ results[3].success

\* C13: the record of a failed case is {success: false, score: 0,
\* reasoning: "Error: " + message} with the message of the value caught, and
\* it is built the same way whatever the kind of that value.
C13_FailureRecordShape ==
    \A p \in Events("throw") :
        trace[p].case < Len(results) =>
            LET r == results[trace[p].case + 1]
                c == testCases[trace[p].case + 1]
            IN r = [id |-> c.id, question |-> c.question,
                    answerPreview |-> "N/A", score |-> 0,
                    reasoning |-> <<"Error: ">> \o trace[p].error.message,
                    success |-> FALSE, error |-> trace[p].error.message]

C13_Witness ==
    /\ evalPc = "done"
    /\ Len(results) = 3
    /\ \E p \in FlowEvents("throw", "researchFlow", 0) :
         trace[p].error.type = "RateLimitError"
    /\ \E p \in FlowEvents("throw", "researchFlow", 1) :
         trace[p].error.type = "InsufficientBalanceError"
    /\ \E p \in FlowEvents("throw", "researchFlow", 2) :
         trace[p].error.type = "Value"
    /\ results[1].reasoning =
         <<"Error: ", "Rate limit exceeded. Please wait ", "30",
           " seconds or try a different model.">>

\* The number of records the history holds before place p.
RecordsBefore(p) == Cardinality({ q \in Events("record") : q < p })

\* C14: the cases are processed one at a time and in the dataset's order: a
\* case is started only when every case before it is recorded and none after
\* it is, and the i-th result carries the id of the i-th test case.
C14_SequentialInOrder ==
    /\ \A j \in DOMAIN results :
         j <= Len(testCases) /\ results[j].id = testCases[j].id
    /\ evalPc \in {"running", "awaitingResearch", "judging", "awaitingJudge"}
         => Len(results) = caseIndex
    /\ \A p \in Events("call") : RecordsBefore(p) = trace[p].case
    /\ \A p, q \in Events("record") :
         p < q => trace[p].case < trace[q].case

C14_Witness ==
    /\ evalPc = "awaitingJudge"
    /\ caseIndex = 2
    /\ Len(results) = 2
    /\ results[1].id = "case-1"
    /\ results[2].id = "case-2"

\* C15: in a run over N >= 1 cases the pause happens N - 1 times: once
\* after each case but the last, straight after that case is recorded,
\* failed or not, and never after the last case.
C15_PauseBetweenCases ==
    /\ \A p \in Events("pause") :
         /\ trace[p].case < Len(testCases) - 1
         /\ p > 1
         /\ trace[p - 1] = [ev |-> "record", case |-> trace[p].case]
    /\ (LoopOver /\ Len(testCases) >= 1) =>
         /\ Cardinality(Events("pause")) = Len(testCases) - 1
         /\ \A k \in 0..(Len(testCases) - 2) :
              Cardinality({ p \in Events("pause") : trace[p].case = k }) = 1

C15_Witness ==
    /\ evalPc = "done"
    /\ Len(testCases) = 3
    /\ Cardinality(Events("pause")) = 2
    /\ ~results[1].success
    /\ results[2].success
    /\ ~results[3].success

RECURSIVE ScoreSum(_)
\* The sum of the scores of the results at the places js.
ScoreSum(js) ==
    IF js = {} THEN 0
    ELSE LET j == CHOOSE x \in js : TRUE
         IN results[j].score + ScoreSum(js \ {j})

\* The places of the successful results, and of those that passed.
SuccessfulPlaces == { j \in DOMAIN results : results[j].success }
PassedPlaces == { j \in SuccessfulPlaces : results[j].score >= 6 }

\* The percentage pct is the nearest to part / whole.
NearestPercent(pct, part, whole) ==
    LET d == 100 * part - pct * whole
    IN 2 * (IF d < 0 THEN -d ELSE d) <= whole

\* C16: after a run over at least one case the reported mean is the sum of
\* the scores of the successful cases divided by their number, and the
\* reported pass rate is the percentage, to the nearest integer, of the cases
\* that succeeded with a score of 6 or more among all cases, failed ones
\* included; results [8, 4, failed] give 33% and a mean of 6.
C16_MeanAndPassRate ==
    (evalPc = "done" /\ Len(results) >= 1) =>
        /\ SuccessfulPlaces # {} =>
             /\ summary.averageScore.den > 0
             /\ summary.averageScore.num * Cardinality(SuccessfulPlaces)
                  = ScoreSum(SuccessfulPlaces) * summary.averageScore.den
        /\ \E pct \in 0..100 :
             /\ summary.passRate = ToString(pct)
             /\ NearestPercent(pct, Cardinality(PassedPlaces), Len(results))
        /\ ( /\ Len(results) = 3
             /\ results[1].success /\ results[1].score = 8
             /\ results[2].success /\ results[2].score = 4
             /\ ~results[3].success )
             => /\ summary.passRate = "33"
                /\ summary.averageScore.num = 6 * summary.averageScore.den

C16_Witness ==
    /\ evalPc = "done"
    /\ Len(results) = 3
    /\ results[1].success /\ results[1].score = 8
    /\ results[2].success /\ results[2].score = 4
    /\ ~results[3].success /\ results[3].score = 0
    /\ summary.passRate = "33"
    /\ summary.averageScore = [num |-> 12, den |-> 2]

\* The records the history holds for the case numbered k.
RecordsOf(k) == { p \in Events("record") : trace[p].case = k }

C18_ResearchThenJudge ==
    /\ \A p \in Events("call") :
         LET c == testCases[trace[p].case + 1] IN
         IF trace[p].flow = "researchFlow"
         THEN trace[p].input = [question |-> c.question,
                                model |-> selectedModel.modelName]
         ELSE /\ p >= 3
              /\ trace[p - 2].ev = "call"
              /\ trace[p - 2].flow = "researchFlow"
              /\ trace[p - 2].case = trace[p].case
              /\ trace[p - 1].ev = "return"
              /\ trace[p - 1].flow = "researchFlow"
              /\ trace[p - 1].case = trace[p].case
              /\ trace[p].input = [question |-> c.question,
                                   answer |-> trace[p - 1].value.answer,
                                   expected_facts |-> c.expected_facts,
                                   model |-> selectedModel.modelName]
    /\ \A p \in Events("throw") :
         trace[p].flow = "researchFlow"
             => FlowEvents("call", "judgeFlow", trace[p].case) = {}
    /\ \A p, q \in Events("call") : trace[p].input.model = trace[q].input.model

C18_Witness ==
    /\ evalPc = "awaitingJudge"
    /\ caseIndex = 2
    /\ selectedModel.modelName = "openai/gpt-4o"
    /\ FlowEvents("throw", "researchFlow", 0) # {}
    /\ FlowEvents("call", "judgeFlow", 0) = {}
    /\ FlowEvents("call", "judgeFlow", 1) # {}
    /\ trace[Len(trace)].input =
         [question |-> "question 3", answer |-> LongAnswer,
          expected_facts |-> <<"fact 3">>, model |-> "openai/gpt-4o"]

\* C19 as stated: a case whose two flow calls returned is recorded with
\* success = true and a score from 0 to 10.
C19_SuccessScoreInRange ==
    \A p \in Events("return") :
        (trace[p].flow = "judgeFlow" /\ trace[p].case < Len(results)) =>
            /\ results[trace[p].case + 1].success
            /\ results[trace[p].case + 1].score \in 0..10

\* C19: a case whose two flow calls returned is recorded with success = true
\* and with the score judgeFlow returned, unchanged: the score is from 0 to
\* 10 whenever the judge's is.
C19_SuccessScoreIsJudgeScore ==
    \A p \in Events("return") :
        (trace[p].flow = "judgeFlow" /\ trace[p].case < Len(results)) =>
            LET r == results[trace[p].case + 1] IN
            /\ r.success
            /\ "error" \notin DOMAIN r
            /\ r.score = trace[p].value.score
            /\ trace[p].value.score \in 0..10 => r.score \in 0..10

C19_Witness ==
    /\ evalPc = "done"
    /\ Len(results) = 2
    /\ results[1].success /\ results[1].score = 8
    /\ results[2].success /\ results[2].score = 11
    /\ Cardinality(Events("throw")) = 0

----------------------------------------------------------------------------
(* searchWeb of src/search.ts. *)

\* The default of searchWeb's numResults.
DefaultNumResults == 5

\* The arguments of a call: the query, and numResults when it is passed (the
\* search tool of agent.ts passes 5).
SearchArgs ==
    { [query |-> q] : q \in {"q1", "q2"} }
    \cup { [query |-> q, numResults |-> n] :
             q \in {"q1", "q2"}, n \in {1, 5, 10} }

\* numResults = 5 in the parameter list: the default stands for an argument
\* that is not passed.
NumResultsOf(args) ==
    IF "numResults" \in DOMAIN args THEN args.numResults
    ELSE DefaultNumResults

\* The options searchWeb hands to client.search.
SearchOptions(numResults) ==
    [searchDepth |-> "basic", maxResults |-> numResults,
     includeAnswer |-> TRUE, includeRawContent |-> FALSE,
     includeImages |-> FALSE]

\* What the provider answers.
SearchResponses ==
    LET hit(k) == [title |-> "t" \o ToString(k), url |-> "u" \o ToString(k),
                   content |-> "c" \o ToString(k)]
    IN { [answer |-> "a", results |-> [k \in 1..n |-> hit(k)]] : n \in 0..2 }

\* What the provider's search throws: an Error or another value.
ProviderFailures ==
    { [type |-> t, origin |-> "provider", message |-> m] :
        t \in {"Error", "Value"}, m \in Vocabulary \cup {<<>>} }

\* searchWeb(client, query, numResults) up to its await.
searchWeb(args) ==
    /\ searchPc = "idle"
    /\ searchArgs' = args
    /\ providerCalls' = <<[query |-> args.query,
                           options |-> SearchOptions(NumResultsOf(args))]>>
    /\ providerOutcome' = NoValue
    /\ searchOutcome' = NoValue
    /\ searchPc' = "awaiting"
    /\ UNCHANGED <<indexerVars, sessionVars, agentVars, callerVars, evalVars>>

\* client.search resolves: searchWeb returns the response.
SearchProviderReturns(response) ==
    /\ searchPc = "awaiting"
    /\ Len(response.results) <= providerCalls[1].options.maxResults
    /\ providerOutcome' = [kind |-> "return", value |-> response]
    /\ searchOutcome' = [kind |-> "return", value |-> response]
    /\ searchPc' = "done"
    /\ UNCHANGED <<indexerVars, sessionVars, agentVars, callerVars, evalVars, searchArgs, providerCalls>>

\* A searchWeb that asks the provider once more before it gives up.
SearchProviderThrowsRetrying(error) ==
    /\ searchPc = "awaiting"
    /\ providerOutcome' = [kind |-> "throw", value |-> error]
    /\ IF Len(providerCalls) < 2
       THEN /\ providerCalls' = Append(providerCalls, providerCalls[1])
            /\ UNCHANGED <<searchOutcome, searchPc>>
       ELSE /\ searchOutcome' = [kind |-> "throw", value |-> error]
            /\ searchPc' = "done"
            /\ UNCHANGED providerCalls
    /\ UNCHANGED <<indexerVars, sessionVars, agentVars, callerVars, evalVars, searchArgs>>

\* client.search rejects with error: the catch block logs it and throws it.
SearchProviderThrows(error) ==
    /\ searchPc = "awaiting"
    /\ providerOutcome' = [kind |-> "throw", value |-> error]
    /\ searchOutcome' = [kind |-> "throw", value |-> Rethrow(error)]
    /\ searchPc' = "done"
    /\ UNCHANGED <<indexerVars, sessionVars, agentVars, callerVars, evalVars, searchArgs, providerCalls>>

\* The caller has taken searchWeb's outcome.
SearchSettle ==
    /\ searchPc = "done"
    /\ searchPc' = "idle"
    /\ searchArgs' = NoValue
    /\ providerCalls' = <<>>
    /\ providerOutcome' = NoValue
    /\ searchOutcome' = NoValue
    /\ UNCHANGED <<indexerVars, sessionVars, agentVars, callerVars, evalVars>>

\* searchWeb takes its client as an argument: the search key is set.
SearchInit ==
    /\ Init
    /\ tavilyApiKey = "key"
    /\ geminiApiKey = "key"
    /\ openaiApiKey = "key"

SearchNext ==
    \/ \E args \in SearchArgs : searchWeb(args)
    \/ \E response \in SearchResponses : SearchProviderReturns(response)
    \/ \E error \in ProviderFailures : SearchProviderThrows(error)
    \/ SearchSettle

SpecSearch == SearchInit /\ [][SearchNext]_vars

\* C20: an invocation of searchWeb makes one call to the provider, with the
\* query and the options basic depth, answer included, raw content and images
\* excluded and maxResults = numResults, 5 when numResults is not passed; a
\* failure of that call is not retried or swallowed: searchWeb throws the
\* very value the provider raised.
C20_OneCallAndSameFailure ==
    /\ searchPc # "idle" =>
         /\ Len(providerCalls) = 1
         /\ providerCalls[1].query = searchArgs.query
         /\ providerCalls[1].options =
              [searchDepth |-> "basic",
               maxResults |-> IF "numResults" \in DOMAIN searchArgs
                              THEN searchArgs.numResults ELSE 5,
               includeAnswer |-> TRUE, includeRawContent |-> FALSE,
               includeImages |-> FALSE]
    /\ searchPc = "done" =>
         /\ searchOutcome.kind = providerOutcome.kind
         /\ searchOutcome.value = providerOutcome.value

C20_Witness ==
    /\ searchPc = "done"
    /\ "numResults" \notin DOMAIN searchArgs
    /\ providerCalls[1].options.maxResults = 5
    /\ providerOutcome.kind = "throw"
    /\ searchOutcome =
         [kind |-> "throw",
          value |-> [type |-> "Error", origin |-> "provider",
                     message |-> M429]]

----------------------------------------------------------------------------
(* Further claims on the classification and on the evaluation run. *)

\* The character c is a letter.
IsLetter(c) ==
    c \in DOMAIN ToLower \/ \E k \in DOMAIN ToLower : ToLower[k] = c

\* sub occurs in s as a token of its own: with no letter next to it.
OccursAsToken(s, sub) ==
    \E i \in 0..(Len(s) - Len(sub)) :
        /\ SubSeq(s, i + 1, i + Len(sub)) = sub
        /\ i = 0 \/ ~IsLetter(s[i])
        /\ i + Len(sub) = Len(s) \/ ~IsLetter(s[i + Len(sub) + 1])

\* C26 as stated: a failure of the generation call whose text has neither a
\* balance marker, nor 429, nor RESOURCE_EXHAUSTED, and has "rate" and
\* "quota" inside other words only, is thrown by researchFlow as it is.
C26_ThrottlingMarkerIsToken ==
    ( /\ ResearchFailed
      /\ genError.type = "Error"
      /\ ~BalanceMarked
      /\ ~Includes(genError.message, M429)
      /\ ~Includes(genError.message, MResourceExhausted)
      /\ ~OccursAsToken(genError.message, MRate)
      /\ ~OccursAsToken(genError.message, MQuota) )
        => /\ outcome = "thrown"
           /\ thrown = genError

\* C27: a case whose judge call returns no structured output is no failure:
\* judgeFlow returns {score: 0, reasoning: "Failed to get judge response"},
\* the case is recorded with success = true and score 0, and it counts among
\* the successful cases the mean is divided by.
C27_JudgeWithoutOutputIsSuccess ==
    \A p \in Events("return") :
        (trace[p].flow = "judgeFlow" /\ "output" \notin DOMAIN trace[p].result)
            => /\ trace[p].value =
                    [score |-> 0, reasoning |-> "Failed to get judge response"]
               /\ trace[p].case < Len(results)
               /\ LET r == results[trace[p].case + 1] IN
                    /\ r.success
                    /\ r.score = 0
                    /\ "error" \notin DOMAIN r
               /\ evalPc = "done" =>
                    /\ summary.successful = Cardinality(SuccessfulPlaces)
                    /\ trace[p].case + 1 \in SuccessfulPlaces
                    /\ summary.averageScore.den = Cardinality(SuccessfulPlaces)
                    /\ summary.averageScore.num = ScoreSum(SuccessfulPlaces)

C27_Witness ==
    /\ evalPc = "done"
    /\ Len(results) = 2
    /\ results[1].success /\ results[1].score = 8
    /\ results[2].success /\ results[2].score = 0
    /\ results[2].reasoning = "Failed to get judge response"
    /\ summary.averageScore = [num |-> 8, den |-> 2]

\* C28 as stated: the summary of every run is well defined: the mean is 0
\* when no case succeeded, and the pass rate is a percentage from 0 to 100
\* for every dataset, the empty one included.
C28_SummaryWellDefined ==
    evalPc = "done" =>
        /\ SuccessfulPlaces = {} => summary.averageScore = Quotient(0, 1)
        /\ \E pct \in 0..100 : summary.passRate = ToString(pct)

----------------------------------------------------------------------------
(* The interactive session of src/index.ts: main and its line handler.      *)

\* Most line events of a session.
MaxLines == 3

RECURSIVE TrimStart(_)
TrimStart(s) ==
    IF s # <<>> /\ Head(s) = " " THEN TrimStart(Tail(s)) ELSE s

RECURSIVE TrimEnd(_)
TrimEnd(s) ==
    IF s # <<>> /\ s[Len(s)] = " " THEN TrimEnd(SubSeq(s, 1, Len(s) - 1))
    ELSE s

\* String.prototype.trim, for lines whose white space is the blank.
Trim(s) == TrimEnd(TrimStart(s))

\* String.prototype.toLowerCase
ToLowerCase(s) == [i \in DOMAIN s |-> Lower(s[i])]

\* The lines the user types: two questions, the commands, a blank line.
Lines ==
    { <<"q", "1">>,
      <<" ", "Q", "2", " ">>,
      <<"E", "x", "i", "t", " ">>,
      <<" ", "M", "o", "d", "e", "l">>,
      <<" ">> }

ExitCommand == <<"e", "x", "i", "t">>
ModelCommand == <<"m", "o", "d", "e", "l">>

\* What the research prompt returns during a session: a structured object
\* without sources, or nothing but raw text.
SessionGenResults ==
    { [finishReason |-> "stop", output |-> [answer |-> "structured answer"]],
      [finishReason |-> "stop", text |-> "raw text"] }

\* addToHistory(role, text), on the history given.
addToHistory(history, role, text) ==
    Append(history, [role |-> role, content |-> <<[text |-> text]>>])

\* A history argument that holds the current question too.
HistoryArgumentWhole(history) == history

\* conversationHistory.slice(0, -1)
HistoryArgument(history) == SubSeq(history, 1, Len(history) - 1)

\* s without its k-th element.
Without(s, k) == SubSeq(s, 1, k - 1) \o SubSeq(s, k + 1, Len(s))

\* main up to its first prompt: the model is selected, the prompt is shown
\* and the line listener is registered.
SessionStart(selection) ==
    /\ startup = "ready"
    /\ sessPc = "idle"
    /\ Len(getAvailableModels) # 0
    /\ selection \in 1..Len(getAvailableModels)
    /\ selectedModel' = IF Len(getAvailableModels) = 1
                        THEN getAvailableModels[1]
                        ELSE getAvailableModels[selection]
    /\ sessPc' = "open"
    /\ screen' = <<"prompt">>
    /\ UNCHANGED <<indexerVars, searchVars, agentVars, evalVars, conversationHistory,
                   outstanding, rlPaused, lastOutcome, linesRead>>

\* The line handler up to its first await or its return.  readline delivers
\* lines it has already read also while the interface is paused.
SessionLine(line) ==
    /\ sessPc = "open"
    /\ linesRead < MaxLines
    /\ linesRead' = linesRead + 1
    /\ LET in == Trim(line) IN
       IF ToLowerCase(in) = ExitCommand
       THEN /\ sessPc' = "closed"
            /\ UNCHANGED <<selectedModel, conversationHistory, outstanding,
                           rlPaused, screen>>
       ELSE IF ToLowerCase(in) = ModelCommand
       THEN IF Len(getAvailableModels) = 1
            THEN /\ selectedModel' = getAvailableModels[1]
                 /\ screen' = <<"prompt">>
                 /\ UNCHANGED <<sessPc, conversationHistory, outstanding,
                                rlPaused>>
            ELSE /\ sessPc' = "choosing"
                 /\ UNCHANGED <<selectedModel, conversationHistory,
                                outstanding, rlPaused, screen>>
       ELSE IF in = <<>>
       THEN /\ screen' = <<"prompt">>
            /\ UNCHANGED <<sessPc, selectedModel, conversationHistory,
                           outstanding, rlPaused>>
       ELSE /\ rlPaused' = TRUE
            /\ screen' = <<"spinner">>
            /\ conversationHistory' =
                 addToHistory(conversationHistory, "user", in)
            /\ outstanding' =
                 Append(outstanding,
                        [question |-> in,
                         history |-> HistoryArgument(
                             addToHistory(conversationHistory, "user", in)),
                         model |-> selectedModel.modelName])
            /\ UNCHANGED <<sessPc, selectedModel>>
    /\ UNCHANGED <<indexerVars, searchVars, agentVars, evalVars, lastOutcome>>

\* The model command's selectModel gets a valid answer.
SessionModelChosen(selection) ==
    /\ sessPc = "choosing"
    /\ selection \in 1..Len(getAvailableModels)
    /\ selectedModel' = getAvailableModels[selection]
    /\ sessPc' = "open"
    /\ screen' = <<"prompt">>
    /\ UNCHANGED <<indexerVars, searchVars, agentVars, evalVars, conversationHistory,
                   outstanding, rlPaused, lastOutcome, linesRead>>

\* The k-th outstanding researchFlow call returns: the answer is shown and
\* recorded, input is resumed and the prompt is shown.
SessionFlowReturns(k, res) ==
    /\ sessPc \in {"open", "choosing"}
    /\ k \in DOMAIN outstanding
    /\ LET response == ResearchAnswer(res) IN
         /\ conversationHistory' =
              addToHistory(conversationHistory, "model", response.answer)
         /\ lastOutcome' = [kind |-> "return", value |-> response]
         /\ screen' = <<"succeed", response.answer, "prompt">>
    /\ outstanding' = Without(outstanding, k)
    /\ rlPaused' = FALSE
    /\ UNCHANGED <<indexerVars, searchVars, agentVars, evalVars, selectedModel, sessPc,
                   linesRead>>

\* What the catch block of the line handler displays for the value caught.
Guidance(caught) ==
    IF caught.type = "RateLimitError"
    THEN <<"fail: rate limit", caught.message, "tip: model">>
    ELSE <<"fail", caught>>

\* A handler that ends the process on a failure that is no rate limit.
SessionFlowThrowsExiting(k, error) ==
    /\ sessPc \in {"open", "choosing"}
    /\ k \in DOMAIN outstanding
    /\ lastOutcome' = [kind |-> "throw", value |-> Classify(error)]
    /\ outstanding' = Without(outstanding, k)
    /\ IF Classify(error).type = "RateLimitError"
       THEN /\ screen' = Guidance(Classify(error)) \o <<"prompt">>
            /\ rlPaused' = FALSE
            /\ UNCHANGED sessPc
       ELSE /\ sessPc' = "closed"
            /\ UNCHANGED <<screen, rlPaused>>
    /\ UNCHANGED <<indexerVars, searchVars, agentVars, evalVars, selectedModel,
                   conversationHistory, linesRead>>

\* A handler that takes the question of a failed call out of the history.
SessionFlowThrowsForgetting(k, error) ==
    /\ sessPc \in {"open", "choosing"}
    /\ k \in DOMAIN outstanding
    /\ lastOutcome' = [kind |-> "throw", value |-> Classify(error)]
    /\ screen' = Guidance(Classify(error)) \o <<"prompt">>
    /\ outstanding' = Without(outstanding, k)
    /\ conversationHistory' = HistoryArgument(conversationHistory)
    /\ rlPaused' = FALSE
    /\ UNCHANGED <<indexerVars, searchVars, agentVars, evalVars, selectedModel, sessPc,
                   linesRead>>

\* The k-th outstanding researchFlow call throws what its classification
\* makes of error: the catch block displays it, input is resumed and the
\* prompt is shown.
SessionFlowThrows(k, error) ==
    /\ sessPc \in {"open", "choosing"}
    /\ k \in DOMAIN outstanding
    /\ lastOutcome' = [kind |-> "throw", value |-> Classify(error)]
    /\ screen' = Guidance(Classify(error)) \o <<"prompt">>
    /\ outstanding' = Without(outstanding, k)
    /\ rlPaused' = FALSE
    /\ UNCHANGED <<indexerVars, searchVars, agentVars, evalVars, selectedModel, sessPc,
                   conversationHistory, linesRead>>

\* The close event of readline (end of input): the process exits.
SessionClose ==
    /\ sessPc \in {"open", "choosing"}
    /\ sessPc' = "closed"
    /\ UNCHANGED <<indexerVars, searchVars, agentVars, evalVars, selectedModel,
                   conversationHistory, outstanding, rlPaused, screen,
                   lastOutcome, linesRead>>

\* The session's process: the search key is set, and one provider key (two
\* models to choose from).
SessionInit ==
    /\ Init
    /\ tavilyApiKey = "key"
    /\ \/ geminiApiKey = "key" /\ openaiApiKey = Undefined
       \/ geminiApiKey = Undefined /\ openaiApiKey = "key"

SessionNext ==
    \/ Startup
    \/ \E selection \in 1..Len(AVAILABLE_MODELS) : SessionStart(selection)
    \/ \E line \in Lines : SessionLine(line)
    \/ \E selection \in 1..Len(AVAILABLE_MODELS) : SessionModelChosen(selection)
    \/ \E k \in 1..MaxLines, res \in SessionGenResults :
         SessionFlowReturns(k, res)
    \/ \E k \in 1..MaxLines, error \in EvalGenFailures :
         SessionFlowThrows(k, error)
    \/ SessionClose

SpecSession == SessionInit /\ [][SessionNext]_vars

----------------------------------------------------------------------------
(* The claims on the interactive session. *)

\* This step settles an outstanding researchFlow call.
CallSettles == Len(outstanding') < Len(outstanding)

\* This step starts a researchFlow call.
CallStarts == Len(outstanding') > Len(outstanding)

\* C21: a researchFlow call of the session that fails with RateLimitError or
\* InsufficientBalanceError does not end the session: the failure is
\* displayed (the RateLimitError's message with the tip to change the model,
\* the InsufficientBalanceError itself), input is resumed, the prompt is
\* shown and the selected model is as before.
C21_SessionSurvivesLimitErrors ==
    [][ ( /\ CallSettles
          /\ lastOutcome'.kind = "throw"
          /\ lastOutcome'.value.type
               \in {"RateLimitError", "InsufficientBalanceError"} )
        => /\ sessPc' = sessPc
           /\ sessPc' # "closed"
           /\ rlPaused' = FALSE
           /\ screen'[Len(screen')] = "prompt"
           /\ IF lastOutcome'.value.type = "RateLimitError"
              THEN /\ screen'[2] = lastOutcome'.value.message
                   /\ screen'[3] = "tip: model"
              ELSE screen'[2] = lastOutcome'.value
           /\ selectedModel' = selectedModel
           /\ conversationHistory' = conversationHistory ]_vars

C21_Witness ==
    /\ sessPc = "open"
    /\ linesRead = 2
    /\ lastOutcome # NoValue
    /\ lastOutcome.kind = "throw"
    /\ lastOutcome.value.type = "InsufficientBalanceError"
    /\ screen = <<"spinner">>
    /\ Len(outstanding) = 1
    /\ outstanding[1].model = selectedModel.modelName
    /\ Len(outstanding[1].history) = 1

\* C22: the conversation history only grows at its end: the history before
\* a step is a prefix of the history after it.
C22_HistoryAppendOnly ==
    [][ /\ Len(conversationHistory') >= Len(conversationHistory)
        /\ SubSeq(conversationHistory', 1, Len(conversationHistory))
             = conversationHistory ]_vars

C22_Witness ==
    /\ Len(conversationHistory) = 3
    /\ conversationHistory[1].role = "user"
    /\ conversationHistory[2].role = "model"
    /\ conversationHistory[3].role = "user"
    /\ lastOutcome.kind = "return"
    /\ Len(outstanding) = 1

\* C23 as stated: at most one researchFlow call of the session is
\* outstanding at any time.
C23_OneCallOutstanding == Len(outstanding) <= 1

\* C24: the history handed to researchFlow with a question is the session's
\* history as it was before the question: the question is appended to the
\* session's history as a user turn and reaches the flow as question only.
C24_HistoryArgumentIsEarlierTurns ==
    [][ CallStarts =>
          LET call == outstanding'[Len(outstanding')] IN
          /\ Len(call.history) = Len(conversationHistory)
          /\ call.history = conversationHistory
          /\ Len(conversationHistory') = Len(conversationHistory) + 1
          /\ conversationHistory'[Len(conversationHistory')] =
               [role |-> "user", content |-> <<[text |-> call.question]>>]
          /\ call.model = selectedModel.modelName ]_vars

C24_Witness ==
    /\ Len(outstanding) = 1
    /\ outstanding[1].question = <<"Q", "2">>
    /\ Len(outstanding[1].history) = 2
    /\ outstanding[1].history[1].content = <<[text |-> <<"q", "1">>]>>
    /\ outstanding[1].history[2].role = "model"
    /\ Len(conversationHistory) = 3

\* C25 as stated: when every question is handled the history is made of
\* pairs: a user turn at each odd place and the model turn that answers it
\* at the next.
C25_HistoryIsPairs ==
    Len(outstanding) = 0 =>
        /\ Len(conversationHistory) % 2 = 0
        /\ \A i \in DOMAIN conversationHistory :
             conversationHistory[i].role =
                 IF i % 2 = 1 THEN "user" ELSE "model"

----------------------------------------------------------------------------
(* chunkCode of the codebase indexer (src/indexer.ts).                      *)

\* Longest document content, in characters.
MaxDocLen == 4

\* Largest maxChunkSize handed to chunkCode.
MaxChunkArg == 3

\* The default of chunkCode's maxChunkSize.
DefaultMaxChunkSize == 1500

NewLine == "\n"

\* The characters of a document: a letter, a blank, a line break.
DocChars == {"a", " ", NewLine}

Contents == UNION { [1..n -> DocChars] : n \in 0..MaxDocLen }

\* The documents loadCodeFiles reads.
CodeDocuments ==
    { [filepath |-> "src/a.ts", content |-> c, filename |-> "a.ts",
       extension |-> ".ts"] : c \in Contents }

\* The arguments of a chunkCode call: the document, and maxChunkSize when it
\* is passed (main does not pass it).
ChunkArgs ==
    { [doc |-> d] : d \in CodeDocuments }
    \cup { [doc |-> d, maxChunkSize |-> n] :
             d \in CodeDocuments, n \in 1..MaxChunkArg }

MaxChunkSizeOf(args) ==
    IF "maxChunkSize" \in DOMAIN args THEN args.maxChunkSize
    ELSE DefaultMaxChunkSize

RECURSIVE Split(_)
\* content.split("\n")
Split(content) ==
    IF \A i \in DOMAIN content : content[i] # NewLine THEN <<content>>
    ELSE LET i == CHOOSE j \in DOMAIN content :
                      /\ content[j] = NewLine
                      /\ \A h \in 1..(j - 1) : content[h] # NewLine
         IN <<SubSeq(content, 1, i - 1)>>
            \o Split(SubSeq(content, i + 1, Len(content)))

\* text.trim().length > 0
HasInk(text) == \E i \in DOMAIN text : text[i] \notin {" ", NewLine}

\* The chunk pushed for the body currentChunk.
ChunkOf(doc, currentChunk, chunkIndex) ==
    [text |-> <<"File: ", doc.filepath, NewLine, NewLine>> \o currentChunk,
     metadata |-> [filepath |-> doc.filepath, filename |-> doc.filename,
                   extension |-> doc.extension,
                   chunkIndex |-> ToString(chunkIndex)]]

\* A test that lets a chunk grow until it is over the limit.
MustFlushLate(currentChunk, line, maxChunkSize) ==
    Len(currentChunk) > maxChunkSize /\ Len(currentChunk) > 0

\* The test of the loop: the chunk with this line would be over the limit.
MustFlush(currentChunk, line, maxChunkSize) ==
    /\ Len(currentChunk \o line \o <<NewLine>>) > maxChunkSize
    /\ Len(currentChunk) > 0

RECURSIVE ChunkLoop(_, _, _, _, _, _)
\* The for loop of chunkCode over the lines left, and the final push.
ChunkLoop(doc, maxChunkSize, lines, currentChunk, chunkIndex, acc) ==
    IF lines = <<>>
    THEN IF HasInk(currentChunk)
         THEN Append(acc, ChunkOf(doc, currentChunk, chunkIndex))
         ELSE acc
    ELSE LET line == Head(lines) IN
         IF MustFlush(currentChunk, line, maxChunkSize)
         THEN ChunkLoop(doc, maxChunkSize, Tail(lines),
                        line \o <<NewLine>>, chunkIndex + 1,
                        Append(acc, ChunkOf(doc, currentChunk, chunkIndex)))
         ELSE ChunkLoop(doc, maxChunkSize, Tail(lines),
                        currentChunk \o line \o <<NewLine>>, chunkIndex, acc)

\* chunkCode(doc, maxChunkSize)
chunkCode(args) ==
    ChunkLoop(args.doc, MaxChunkSizeOf(args), Split(args.doc.content),
              <<>>, 0, <<>>)

\* The indexer has read a document and is about to chunk it.
IndexerLoad(args) ==
    /\ Truthy(geminiApiKey)
    /\ indexerPc = "idle"
    /\ chunkArgs' = args
    /\ indexerPc' = "loaded"
    /\ UNCHANGED <<sessionVars, searchVars, agentVars, callerVars, evalVars,
                   chunks>>

\* chunkCode runs on the document.
IndexerChunk ==
    /\ indexerPc = "loaded"
    /\ chunks' = chunkCode(chunkArgs)
    /\ indexerPc' = "chunked"
    /\ UNCHANGED <<sessionVars, searchVars, agentVars, callerVars, evalVars,
                   chunkArgs>>

\* The indexer's process: its embedding key is set.
IndexerInit ==
    /\ Init
    /\ tavilyApiKey = "key"
    /\ geminiApiKey = "key"
    /\ openaiApiKey = Undefined

IndexerNext ==
    \/ \E args \in ChunkArgs : IndexerLoad(args)
    \/ IndexerChunk

SpecIndexer == IndexerInit /\ [][IndexerNext]_vars

\* The body of a chunk: its text after the "File: <path>" heading.
BodyOf(chunk) == SubSeq(chunk.text, 5, Len(chunk.text))

\* The bodies of the chunks returned, one after the other.
Bodies == Flatten([j \in DOMAIN chunks |-> BodyOf(chunks[j])])

\* The document's lines, each followed by a line break.
DocumentText == chunkArgs.doc.content \o <<NewLine>>

\* The number of line breaks of text.
LineBreaks(text) == Cardinality({ i \in DOMAIN text : text[i] = NewLine })

\* The indexes are 0, 1, 2, ... in the order of the chunks.
IndexesRunFromZero ==
    \A j \in DOMAIN chunks : chunks[j].metadata.chunkIndex = ToString(j - 1)

\* A body over the limit is one single line.
OnlySingleLinesAreOversize ==
    \A j \in DOMAIN chunks :
        Len(BodyOf(chunks[j])) > MaxChunkSizeOf(chunkArgs)
            => LineBreaks(BodyOf(chunks[j])) = 1

\* C29 as stated: the bodies of the chunks, in order, give back the document's
\* lines each followed by a line break; the indexes run 0, 1, 2, ...; a body
\* is over maxChunkSize only when it is one single line.
C29_ChunksKeepText ==
    indexerPc = "chunked" =>
        /\ Bodies = DocumentText
        /\ IndexesRunFromZero
        /\ OnlySingleLinesAreOversize

\* C29: the bodies of the chunks, in order, are the beginning of the
\* document's lines each followed by a line break, and what is missing at
\* the end is white space only (a last chunk without ink is not returned);
\* no body is empty; the indexes run 0, 1, 2, ...; a body is over
\* maxChunkSize only when it is one single line.
C29_ChunksKeepTextButBlankTail ==
    indexerPc = "chunked" =>
        /\ Len(Bodies) <= Len(DocumentText)
        /\ SubSeq(DocumentText, 1, Len(Bodies)) = Bodies
        /\ ~HasInk(SubSeq(DocumentText, Len(Bodies) + 1, Len(DocumentText)))
        /\ Len(Bodies) < Len(DocumentText)
             => (chunks = <<>> \/ Bodies[Len(Bodies)] = NewLine)
        /\ \A j \in DOMAIN chunks : BodyOf(chunks[j]) # <<>>
        /\ IndexesRunFromZero
        /\ OnlySingleLinesAreOversize

C29_Witness ==
    /\ indexerPc = "chunked"
    /\ chunkArgs.doc.content = <<"a", "a", NewLine, " ">>
    /\ "maxChunkSize" \in DOMAIN chunkArgs
    /\ chunkArgs.maxChunkSize = 2
    /\ Len(chunks) = 1
    /\ BodyOf(chunks[1]) = <<"a", "a", NewLine>>
    /\ chunks[1].metadata.chunkIndex = "0"
    /\ Len(Bodies) < Len(DocumentText)

====
